---- MODULE Spec2Model ----
(***************************************************************************)
(* Model of the DFU run-time class of usbd-dfu-rt (src/src/class.rs):      *)
(* DfuRuntimeClass<T: DfuRuntimeOps> with its four entry points tick,      *)
(* control_in, control_out and reset, its descriptor generation, and the   *)
(* DfuRuntimeOps callbacks allow and detach.                               *)
(***************************************************************************)
EXTENDS Integers, Sequences, FiniteSets, TLC

\* Largest value of a u16 in the model (stands for 65535).
MaxMs == 3

U16 == 0 .. MaxMs

\* Option<u16>: None is the empty sequence, Some(n) the one-element sequence.
None == << >>
Some(n) == << n >>
IsSome(o) == o # None
OptionU16 == {None} \cup {Some(n) : n \in U16}

DFU_REQ_DETACH == 0
DFU_REQ_GETSTATUS == 3
\* Request codes that are neither DETACH nor GETSTATUS (DFU_DNLOAD).
OtherRequestCodes == {1}

USB_CLASS_APPLICATION_SPECIFIC == 254
DFU_SUBCLASS_FIRMWARE_UPGRADE == 1
DFU_PROTOCOL_RUNTIME == 1
DFU_TYPE_FUNCTIONAL == 33
\* bcdDFUVersion, 0x011a
dfu_version == 282

\* Defaults of the associated constants of DfuRuntimeOps.
DefaultDetachTimeoutMs == 255
DefaultMaxTransferSize == 2048
\* Values an ops type can give to MAX_TRANSFER_SIZE.
MaxTransferSizes == {64, DefaultMaxTransferSize}

\* enum DfuState, #[repr(u8)]
DfuState == {"AppIdle", "AppDetach"}
DfuStateAsU8(s) == IF s = "AppIdle" THEN 0 ELSE 1

\* enum DfuStatusCode, #[repr(u8)]
DfuStatusCodeOK == 0

\* control::RequestType and control::Recipient values a host can send.
RequestTypes == {"Standard", "Class"}
Recipients == {"Device", "Interface"}
\* Interface numbers the allocator can hand out (u8).
InterfaceNumbers == {0, 1}
\* wIndex values (u16): the interface numbers and one value above u8 range.
Indexes == InterfaceNumbers \cup {256}
RequestCodes == {DFU_REQ_DETACH, DFU_REQ_GETSTATUS} \cup OtherRequestCodes

\* wValue carries the timeout of a DETACH and is zero in every other request.
Requests == {r \in [request_type : RequestTypes, recipient : Recipients,
                    index : Indexes, request : RequestCodes, value : U16] :
                r.request # DFU_REQ_DETACH => r.value = 0}
\* Device-to-host requests: wValue is not read by control_in.
InRequests == {r \in Requests : r.value = 0}
NoRequest == [request_type |-> "Standard", recipient |-> "Device",
              index |-> 0, request |-> 0, value |-> 0]

VARIABLES
    WILL_DETACH,     \* T::WILL_DETACH, fixed per ops type
    MANIFESTATION_TOLERANT, \* T::MANIFESTATION_TOLERANT
    CAN_DNLOAD,      \* T::CAN_DNLOAD
    CAN_UPLOAD,      \* T::CAN_UPLOAD
    DETACH_TIMEOUT_MS, \* T::DETACH_TIMEOUT_MS
    MAX_TRANSFER_SIZE, \* T::MAX_TRANSFER_SIZE
    allowOverridden, \* TRUE when the ops type overrides the default allow
    iface,           \* self.iface
    timeout,         \* self.timeout : Option<u16>
    state,           \* self.state : DfuState
    op,              \* the entry point called last
    req,             \* the request of the last control transfer
    elapsed,         \* the argument of the last tick
    xfer,            \* what the last handler did with its transfer
    response,        \* the bytes passed to accept_with by the last handler
    descriptor,      \* what the last handler wrote to the DescriptorWriter
    calls,           \* the ops methods the last handler called, in order
    detachInvoked,   \* detach() has been called at least once
    win              \* the ticks since the last accepted DETACH

vars == << WILL_DETACH, MANIFESTATION_TOLERANT, CAN_DNLOAD, CAN_UPLOAD,
           DETACH_TIMEOUT_MS, MAX_TRANSFER_SIZE, allowOverridden, iface,
           timeout, state, op, req, elapsed, xfer, response, descriptor,
           calls, detachInvoked, win >>

config == << WILL_DETACH, MANIFESTATION_TOLERANT, CAN_DNLOAD, CAN_UPLOAD,
             DETACH_TIMEOUT_MS, MAX_TRANSFER_SIZE, allowOverridden, iface >>

\* No descriptor was written by the handler.
NoDescriptor == [written |-> << >>, result |-> "none"]

AllowCall(v, r) == [fn |-> "allow", arg |-> Some(v), ret |-> r]
DetachCall == [fn |-> "detach", arg |-> None, ret |-> None]

\* number of detach() calls in a sequence of ops calls
RECURSIVE CountDetach(_)
CountDetach(cs) ==
    IF cs = << >> THEN 0
    ELSE (IF Head(cs).fn = "detach" THEN 1 ELSE 0) + CountDetach(Tail(cs))

\* Mutation: the countdown counts up (saturating at the u16 maximum).
saturating_add(a, b) == IF a + b <= MaxMs THEN a + b ELSE MaxMs

\* Mutation: the subtraction wraps around instead of saturating.
wrapping_sub(a, b) == (a - b) % (MaxMs + 1)

\* u16::saturating_sub
saturating_sub(a, b) == IF a >= b THEN a - b ELSE 0

\* DfuRuntimeOps::allow, the default implementation
allow(t) == Some(t)

\* The values allow can return for a host value v: the default returns
\* Some(v); an overriding implementation may return any Option<u16>.
AllowReturns(v) == IF allowOverridden THEN OptionU16 ELSE {allow(v)}

\* Mutation: the index is compared after truncation to u8.
Addressed_truncatedIndex(r, ifc) ==
    /\ r.request_type = "Class"
    /\ r.recipient = "Interface"
    /\ r.index % 256 = ifc

\* The addressing filter shared by control_in and control_out.
Addressed(r, ifc) ==
    /\ r.request_type = "Class"
    /\ r.recipient = "Interface"
    /\ r.index = ifc

\* control_out calls allow only for a DETACH that passed the filter.
CallsAllow(r, ifc) == Addressed(r, ifc) /\ r.request = DFU_REQ_DETACH

\* Mutation: expiry is tested before the subtraction, so a countdown that
\* reaches zero is stored and detach() comes one call late.
TickBody_expiresLate(t, s, e, wd) ==
    IF IsSome(t)
    THEN IF t[1] = 0
         THEN [timeout |-> None, state |-> s,
               calls |-> IF wd THEN << DetachCall >> ELSE << >>]
         ELSE [timeout |-> Some(saturating_sub(t[1], e)), state |-> s,
               calls |-> << >>]
    ELSE [timeout |-> t, state |-> s, calls |-> << >>]

\* Mutation: every call counts as one millisecond.
TickBody_ignoresElapsed(t, s, e, wd) ==
    IF IsSome(t)
    THEN LET new == saturating_sub(t[1], 1) IN
         IF new = 0
         THEN [timeout |-> None, state |-> s,
               calls |-> IF wd THEN << DetachCall >> ELSE << >>]
         ELSE [timeout |-> Some(new), state |-> s, calls |-> << >>]
    ELSE [timeout |-> t, state |-> s, calls |-> << >>]

\* Mutation: an expiry without WILL_DETACH puts the state back to AppIdle.
TickBody_backToIdle(t, s, e, wd) ==
    IF IsSome(t)
    THEN LET new == saturating_sub(t[1], e) IN
         IF new = 0
         THEN IF wd
              THEN [timeout |-> None, state |-> s, calls |-> << DetachCall >>]
              ELSE [timeout |-> None, state |-> "AppIdle", calls |-> << >>]
         ELSE [timeout |-> Some(new), state |-> s, calls |-> << >>]
    ELSE [timeout |-> t, state |-> s, calls |-> << >>]

\* Mutation: an expiry calls detach() without testing WILL_DETACH.
TickBody_alwaysDetaches(t, s, e, wd) ==
    IF IsSome(t)
    THEN LET new == saturating_sub(t[1], e) IN
         IF new = 0
         THEN [timeout |-> None, state |-> s, calls |-> << DetachCall >>]
         ELSE [timeout |-> Some(new), state |-> s, calls |-> << >>]
    ELSE [timeout |-> t, state |-> s, calls |-> << >>]

\* Mutation: the test of WILL_DETACH on expiry is inverted.
TickBody_invertedWillDetach(t, s, e, wd) ==
    IF IsSome(t)
    THEN LET new == saturating_sub(t[1], e) IN
         IF new = 0
         THEN [timeout |-> None, state |-> s,
               calls |-> IF ~wd THEN << DetachCall >> ELSE << >>]
         ELSE [timeout |-> Some(new), state |-> s, calls |-> << >>]
    ELSE [timeout |-> t, state |-> s, calls |-> << >>]

\* Body of DfuRuntimeClass::tick on (self.timeout, self.state).
TickBody(t, s, e, wd) ==
    IF IsSome(t)
    THEN LET new == saturating_sub(t[1], e) IN
         IF new = 0
         THEN [timeout |-> None, state |-> s,
               calls |-> IF wd THEN << DetachCall >> ELSE << >>]
         ELSE [timeout |-> Some(new), state |-> s, calls |-> << >>]
    ELSE [timeout |-> t, state |-> s, calls |-> << >>]

\* Mutation: reset does not test that a timeout is pending.
ResetBody_ignoresPending(t, s, wd) ==
    IF ~wd
    THEN [timeout |-> None, state |-> s, calls |-> << DetachCall >>]
    ELSE [timeout |-> t, state |-> s, calls |-> << >>]

\* Mutation: reset calls detach() but leaves the timeout pending.
ResetBody_keepsTimeout(t, s, wd) ==
    IF ~wd /\ IsSome(t)
    THEN [timeout |-> t, state |-> s, calls |-> << DetachCall >>]
    ELSE [timeout |-> t, state |-> s, calls |-> << >>]

\* Mutation: reset does not test WILL_DETACH.
ResetBody_ignoresWillDetach(t, s, wd) ==
    IF IsSome(t)
    THEN [timeout |-> None, state |-> s, calls |-> << DetachCall >>]
    ELSE [timeout |-> t, state |-> s, calls |-> << >>]

\* Body of UsbClass::reset.
ResetBody(t, s, wd) ==
    IF ~wd /\ IsSome(t)
    THEN [timeout |-> None, state |-> s, calls |-> << DetachCall >>]
    ELSE [timeout |-> t, state |-> s, calls |-> << >>]

\* Mutation: status code and state byte are swapped in the record.
StatusRecord_stateFirst(s) == << DfuStateAsU8(s), 0, 0, 0, DfuStatusCodeOK, 0 >>

\* The status record of GETSTATUS.
StatusRecord(s) == << DfuStatusCodeOK, 0, 0, 0, DfuStateAsU8(s), 0 >>

\* Mutation: every request code that passes the filter gets the status.
ControlInBody_answersEveryCode(t, s, r, ifc) ==
    IF ~Addressed(r, ifc)
    THEN [timeout |-> t, state |-> s, xfer |-> "none", response |-> << >>]
    ELSE [timeout |-> t, state |-> s, xfer |-> "accepted",
          response |-> StatusRecord(s)]

\* Body of UsbClass::control_in.
ControlInBody(t, s, r, ifc) ==
    IF ~Addressed(r, ifc)
    THEN [timeout |-> t, state |-> s, xfer |-> "none", response |-> << >>]
    ELSE IF r.request = DFU_REQ_GETSTATUS
    THEN [timeout |-> t, state |-> s, xfer |-> "accepted",
          response |-> StatusRecord(s)]
    ELSE [timeout |-> t, state |-> s, xfer |-> "rejected", response |-> << >>]

\* Mutation: an accepted DETACH stores the host's wValue instead of the
\* value allow returned.
ControlOutBody_storesRequested(t, s, r, ifc, a) ==
    IF ~Addressed(r, ifc)
    THEN [timeout |-> t, state |-> s, xfer |-> "none", calls |-> << >>]
    ELSE IF r.request = DFU_REQ_DETACH
    THEN IF IsSome(a)
         THEN [timeout |-> Some(r.value), state |-> "AppDetach",
               xfer |-> "accepted", calls |-> << AllowCall(r.value, a) >>]
         ELSE [timeout |-> a, state |-> s, xfer |-> "rejected",
               calls |-> << AllowCall(r.value, a) >>]
    ELSE [timeout |-> t, state |-> s, xfer |-> "rejected", calls |-> << >>]

\* Mutation: an accepted DETACH does not set the state.
ControlOutBody_keepsState(t, s, r, ifc, a) ==
    IF ~Addressed(r, ifc)
    THEN [timeout |-> t, state |-> s, xfer |-> "none", calls |-> << >>]
    ELSE IF r.request = DFU_REQ_DETACH
    THEN IF IsSome(a)
         THEN [timeout |-> a, state |-> s, xfer |-> "accepted",
               calls |-> << AllowCall(r.value, a) >>]
         ELSE [timeout |-> a, state |-> s, xfer |-> "rejected",
               calls |-> << AllowCall(r.value, a) >>]
    ELSE [timeout |-> t, state |-> s, xfer |-> "rejected", calls |-> << >>]

\* Body of UsbClass::control_out; a is what allow returns if it is called.
ControlOutBody(t, s, r, ifc, a) ==
    IF ~Addressed(r, ifc)
    THEN [timeout |-> t, state |-> s, xfer |-> "none", calls |-> << >>]
    ELSE IF r.request = DFU_REQ_DETACH
    THEN IF IsSome(a)
         THEN [timeout |-> a, state |-> "AppDetach", xfer |-> "accepted",
               calls |-> << AllowCall(r.value, a) >>]
         ELSE [timeout |-> a, state |-> s, xfer |-> "rejected",
               calls |-> << AllowCall(r.value, a) >>]
    ELSE [timeout |-> t, state |-> s, xfer |-> "rejected", calls |-> << >>]

\* bool as u8
BoolAsU8(b) == IF b THEN 1 ELSE 0

\* u16::to_le_bytes
to_le_bytes(n) == << n % 256, (n \div 256) % 256 >>

\* DfuRuntimeClass::dfu_bm_attributes over the constants of T.
dfu_bm_attributes(will_detach, manifestation_tolerant, can_dnload, can_upload) ==
    BoolAsU8(will_detach) * 8
    + BoolAsU8(manifestation_tolerant) * 4
    + BoolAsU8(can_dnload) * 2
    + BoolAsU8(can_dnload)

\* The three DescriptorWriter calls of get_configuration_descriptors.
DescriptorWrites(ifc, wd, mt, dn, up, dto, mts) ==
    << << "iad", ifc, 1, USB_CLASS_APPLICATION_SPECIFIC,
          DFU_SUBCLASS_FIRMWARE_UPGRADE, DFU_PROTOCOL_RUNTIME >>,
       << "interface", ifc, USB_CLASS_APPLICATION_SPECIFIC,
          DFU_SUBCLASS_FIRMWARE_UPGRADE, DFU_PROTOCOL_RUNTIME >>,
       << "write", DFU_TYPE_FUNCTIONAL,
          << dfu_bm_attributes(wd, mt, dn, up),
             to_le_bytes(dto)[1], to_le_bytes(dto)[2],
             to_le_bytes(mts)[1], to_le_bytes(mts)[2],
             to_le_bytes(dfu_version)[1], to_le_bytes(dfu_version)[2] >> >> >>

\* Body of get_configuration_descriptors; room is the number of writer calls
\* the enumeration buffer has room for, the first failing call returns Err.
DescriptorBody(ifc, wd, mt, dn, up, dto, mts, room) ==
    LET w == DescriptorWrites(ifc, wd, mt, dn, up, dto, mts) IN
    IF room >= Len(w)
    THEN [written |-> w, result |-> "Ok"]
    ELSE [written |-> SubSeq(w, 1, room), result |-> "Err"]

\* The tick window: opened by an accepted DETACH, kept open by ticks whose
\* running sum stays within the accepted timeout, closed by anything else.
\* detaches counts the detach() calls since the last accepted DETACH.
WinClosed == [open |-> FALSE, T |-> 0, sum |-> 0, ticked |-> FALSE, detaches |-> 0]
WinAccept(t) == [open |-> TRUE, T |-> t, sum |-> 0, ticked |-> FALSE, detaches |-> 0]
WinTick(w, e, n) ==
    IF w.open /\ w.sum + e <= w.T
    THEN [w EXCEPT !.sum = @ + e, !.ticked = TRUE, !.detaches = @ + n]
    ELSE [WinClosed EXCEPT !.detaches = w.detaches + n]
WinOther(w, n) == [WinClosed EXCEPT !.detaches = w.detaches + n]

\* DfuRuntimeClass::new
InitSelf ==
    /\ timeout = None
    /\ state = "AppIdle"
    /\ op = "new"
    /\ req = NoRequest
    /\ elapsed = 0
    /\ xfer = "none"
    /\ response = << >>
    /\ descriptor = NoDescriptor
    /\ calls = << >>
    /\ detachInvoked = FALSE
    /\ win = WinClosed

\* DfuRuntimeClass::new with an ops type that chooses WILL_DETACH and may
\* override allow, and keeps the defaults of the other constants.
Init ==
    /\ WILL_DETACH \in BOOLEAN
    /\ MANIFESTATION_TOLERANT = FALSE
    /\ CAN_DNLOAD = TRUE
    /\ CAN_UPLOAD = TRUE
    /\ DETACH_TIMEOUT_MS = DefaultDetachTimeoutMs
    /\ MAX_TRANSFER_SIZE = DefaultMaxTransferSize
    /\ allowOverridden \in BOOLEAN
    /\ iface \in InterfaceNumbers
    /\ InitSelf

\* DfuRuntimeClass::tick
tick(elapsed_time_ms) ==
    LET b == TickBody(timeout, state, elapsed_time_ms, WILL_DETACH) IN
    /\ timeout' = b.timeout
    /\ state' = b.state
    /\ calls' = b.calls
    /\ op' = "tick"
    /\ req' = NoRequest
    /\ elapsed' = elapsed_time_ms
    /\ xfer' = "none"
    /\ response' = << >>
    /\ descriptor' = NoDescriptor
    /\ detachInvoked' = (detachInvoked \/ CountDetach(b.calls) > 0)
    /\ win' = WinTick(win, elapsed_time_ms, CountDetach(b.calls))
    /\ UNCHANGED config

\* UsbClass::reset
reset ==
    LET b == ResetBody(timeout, state, WILL_DETACH) IN
    /\ timeout' = b.timeout
    /\ state' = b.state
    /\ calls' = b.calls
    /\ op' = "reset"
    /\ req' = NoRequest
    /\ elapsed' = 0
    /\ xfer' = "none"
    /\ response' = << >>
    /\ descriptor' = NoDescriptor
    /\ detachInvoked' = (detachInvoked \/ CountDetach(b.calls) > 0)
    /\ win' = WinOther(win, CountDetach(b.calls))
    /\ UNCHANGED config

\* UsbClass::control_in
control_in(r) ==
    LET b == ControlInBody(timeout, state, r, iface) IN
    /\ timeout' = b.timeout
    /\ state' = b.state
    /\ calls' = << >>
    /\ op' = "control_in"
    /\ req' = r
    /\ elapsed' = 0
    /\ xfer' = b.xfer
    /\ response' = b.response
    /\ descriptor' = NoDescriptor
    /\ win' = WinOther(win, 0)
    /\ UNCHANGED << config, detachInvoked >>

\* UsbClass::control_out
control_out(r) ==
    \E a \in (IF CallsAllow(r, iface) THEN AllowReturns(r.value) ELSE {None}) :
      LET b == ControlOutBody(timeout, state, r, iface, a) IN
      /\ timeout' = b.timeout
      /\ state' = b.state
      /\ calls' = b.calls
      /\ op' = "control_out"
      /\ req' = r
      /\ elapsed' = 0
      /\ xfer' = b.xfer
      /\ response' = << >>
      /\ descriptor' = NoDescriptor
      /\ detachInvoked' = (detachInvoked \/ CountDetach(b.calls) > 0)
      /\ win' = IF b.xfer = "accepted"
                THEN WinAccept(b.timeout[1])
                ELSE WinOther(win, CountDetach(b.calls))
      /\ UNCHANGED config

\* UsbClass::get_configuration_descriptors
get_configuration_descriptors(room) ==
    /\ descriptor' = DescriptorBody(iface, WILL_DETACH, MANIFESTATION_TOLERANT,
                                    CAN_DNLOAD, CAN_UPLOAD, DETACH_TIMEOUT_MS,
                                    MAX_TRANSFER_SIZE, room)
    /\ op' = "get_configuration_descriptors"
    /\ req' = NoRequest
    /\ elapsed' = 0
    /\ xfer' = "none"
    /\ response' = << >>
    /\ calls' = << >>
    /\ win' = WinOther(win, 0)
    /\ UNCHANGED << config, timeout, state, detachInvoked >>

\* Number of writer calls the enumeration buffer can have room for.
WriterRooms == {0, 1, 2, 3}

Next ==
    \/ \E e \in U16 : tick(e)
    \/ reset
    \/ \E r \in InRequests : control_in(r)
    \/ \E r \in Requests : control_out(r)
    \/ \E room \in WriterRooms : get_configuration_descriptors(room)

Spec == Init /\ [][Next]_vars

\* Every ops type: all constants of DfuRuntimeOps chosen freely, the default
\* allow.  Enumeration and control writes only.
CapInit ==
    /\ WILL_DETACH \in BOOLEAN
    /\ MANIFESTATION_TOLERANT \in BOOLEAN
    /\ CAN_DNLOAD \in BOOLEAN
    /\ CAN_UPLOAD \in BOOLEAN
    /\ DETACH_TIMEOUT_MS \in U16
    /\ MAX_TRANSFER_SIZE \in MaxTransferSizes
    /\ allowOverridden = FALSE
    /\ iface \in InterfaceNumbers
    /\ InitSelf

CapNext ==
    \/ \E r \in Requests : control_out(r)
    \/ \E room \in WriterRooms : get_configuration_descriptors(room)

CapSpec == CapInit /\ [][CapNext]_vars

\* The application's main loop calls tick with a nonzero elapsed time on
\* every round.
tick_progress == \E e \in U16 \ {0} : tick(e)

\* A control write, except a DETACH for this interface while a timeout is
\* pending: the host sends no further DETACH during a countdown.
control_out_no_redetach(r) ==
    /\ ~(CallsAllow(r, iface) /\ IsSome(timeout))
    /\ control_out(r)

LiveNext ==
    \/ \E e \in U16 : tick(e)
    \/ reset
    \/ \E r \in InRequests : control_in(r)
    \/ \E r \in Requests : control_out_no_redetach(r)
    \/ \E room \in WriterRooms : get_configuration_descriptors(room)

LiveSpec == Init /\ [][LiveNext]_vars /\ WF_vars(tick_progress)

TypeOK ==
    /\ WILL_DETACH \in BOOLEAN
    /\ allowOverridden \in BOOLEAN
    /\ iface \in InterfaceNumbers
    /\ timeout \in OptionU16
    /\ state \in DfuState
    /\ op \in {"new", "tick", "reset", "control_in", "control_out",
              "get_configuration_descriptors"}
    /\ req \in Requests
    /\ elapsed \in U16
    /\ xfer \in {"none", "accepted", "rejected"}
    /\ detachInvoked \in BOOLEAN

(***************************************************************************)
(* Properties.                                                             *)
(***************************************************************************)

\* A request passes the addressing filter of this instance: Class type,
\* Interface recipient, wIndex equal to the interface number.
ForThisInterface(r) ==
    r.request_type = "Class" /\ r.recipient = "Interface" /\ r.index = iface

\* The last operation was a control write carrying a DETACH for this interface.
DetachHandled ==
    op = "control_out" /\ ForThisInterface(req) /\ req.request = DFU_REQ_DETACH

\* C1: after an accepted DETACH with timeout T followed only by ticks, no
\* detach() happens while the running sum is below T (or before the first
\* tick); once at least one tick was made and the sum is exactly T, detach()
\* has been invoked exactly once and the timeout is None when WILL_DETACH,
\* and detach() has not been invoked at all when not WILL_DETACH.
C1_DetachExactlyAtExpiry ==
    win.open =>
      /\ win.detaches = (IF WILL_DETACH /\ win.ticked /\ win.sum = win.T
                         THEN 1 ELSE 0)
      /\ (WILL_DETACH /\ win.ticked /\ win.sum = win.T => timeout = None)

C1_Witness ==
    /\ win.open /\ WILL_DETACH
    /\ win.T = MaxMs /\ win.sum = win.T
    /\ op = "tick" /\ elapsed = 1
    /\ calls = << DetachCall >>

\* C2: a bus reset with WILL_DETACH false and a timeout pending calls
\* detach() exactly once and clears the timeout, whatever remains of it; with
\* WILL_DETACH true it calls nothing and leaves state and timeout unchanged.
C2_ResetDetaches ==
    [][op' = "reset" =>
         /\ (~WILL_DETACH /\ IsSome(timeout)) =>
               (calls' = << DetachCall >> /\ timeout' = None)
         /\ WILL_DETACH =>
               (calls' = << >> /\ state' = state /\ timeout' = timeout)]_vars

C2_Witness ==
    /\ op = "reset" /\ ~WILL_DETACH
    /\ calls = << DetachCall >>
    /\ timeout = None /\ state = "AppDetach"

\* C3: a DETACH for this interface for which allow returns None is rejected
\* and leaves dfu_state and pending_timeout_ms as they were before it.
C3_RejectedDetachChangesNothing ==
    [][(/\ op' = "control_out"
        /\ ForThisInterface(req')
        /\ req'.request = DFU_REQ_DETACH
        /\ calls' = << AllowCall(req'.value, None) >>)
       => (xfer' = "rejected" /\ state' = state /\ timeout' = timeout)]_vars

\* C4: a DETACH for this interface for which allow returns Some(t) is
\* accepted, sets the timeout to Some(t) and the state to AppDetach, and does
\* not call detach(); with the default allow, t is the host's wValue.
C4_AcceptedDetach ==
    DetachHandled =>
      /\ \A t \in U16 :
           (\E i \in DOMAIN calls : calls[i] = AllowCall(req.value, Some(t)))
             => /\ xfer = "accepted"
                /\ timeout = Some(t)
                /\ state = "AppDetach"
                /\ CountDetach(calls) = 0
      /\ ~allowOverridden => timeout = Some(req.value)

C4_Witness ==
    /\ DetachHandled /\ allowOverridden
    /\ xfer = "accepted"
    /\ req.value = MaxMs
    /\ timeout = Some(1)

\* C5: after an accepted DETACH with timeout T followed only by ticks summing
\* to S < T, detach() has not been invoked and the timeout is Some(T - S),
\* which is nonzero.
C5_PartialCountdown ==
    (win.open /\ win.sum < win.T) =>
      /\ win.detaches = 0
      /\ IsSome(timeout)
      /\ timeout[1] = win.T - win.sum
      /\ timeout[1] >= 1

C5_Witness ==
    /\ win.open /\ win.ticked /\ ~WILL_DETACH
    /\ win.sum >= 1 /\ win.sum < win.T
    /\ op = "tick"

\* C6: dfu_state is AppDetach if and only if a timeout is pending, or
\* WILL_DETACH is true and detach() has been invoked.
C6_DetachStateIffPending ==
    (state = "AppDetach") <=> (IsSome(timeout) \/ (WILL_DETACH /\ detachInvoked))

\* C7 as stated: from a state with the timeout set, no step makes it larger.
C7_NeverIncreased ==
    [][IsSome(timeout) =>
         (timeout' = None \/ timeout'[1] <= timeout[1])]_vars

\* C7 as amended: from a state with the timeout set, no step other than an
\* accepted DETACH makes it larger.
C7_OnlyAcceptedDetachIncreases ==
    [][(IsSome(timeout) /\ ~(op' = "control_out" /\ xfer' = "accepted")) =>
         (timeout' = None \/ timeout'[1] <= timeout[1])]_vars

C7_Witness ==
    /\ op = "tick" /\ elapsed >= 1
    /\ IsSome(timeout) /\ timeout[1] < MaxMs
    /\ state = "AppDetach"

\* C8: with WILL_DETACH false, a tick that drives the pending timeout to zero
\* leaves dfu_state AppIdle, which GETSTATUS then reports as 0.
C8_ExpiryFallsBackToIdle ==
    [][(~WILL_DETACH /\ op' = "tick" /\ IsSome(timeout) /\ timeout' = None)
       => (state' = "AppIdle" /\ StatusRecord(state')[5] = 0)]_vars

\* C9: once dfu_state is AppDetach, every step leaves it AppDetach.
C9_NoRegression ==
    [][state = "AppDetach" => state' = "AppDetach"]_vars

C9_Witness ==
    /\ state = "AppDetach" /\ detachInvoked /\ timeout = None
    /\ DetachHandled /\ xfer = "rejected"

\* C10: a control read or write that does not pass the addressing filter
\* leaves state and timeout unchanged, is neither accepted nor rejected, and
\* calls neither allow nor detach, whatever its request code.
C10_UnaddressedIgnored ==
    [][(op' \in {"control_in", "control_out"} /\ ~ForThisInterface(req')) =>
         /\ state' = state
         /\ timeout' = timeout
         /\ xfer' = "none"
         /\ calls' = << >>
         /\ response' = << >>]_vars

C10_Witness ==
    /\ op = "control_out" /\ xfer = "none"
    /\ req.request_type = "Class" /\ req.recipient = "Interface"
    /\ req.index = 256 /\ iface = 0
    /\ req.request = DFU_REQ_DETACH /\ req.value = MaxMs
    /\ timeout = Some(1)

\* C11: a GETSTATUS control read for this interface is accepted with exactly
\* six bytes, 0 (OK), 0, 0, 0, the dfu_state before the request (0 AppIdle,
\* 1 AppDetach), 0, and leaves dfu_state and the timeout unchanged.
C11_GetStatusRecord ==
    [][(/\ op' = "control_in"
        /\ ForThisInterface(req')
        /\ req'.request = DFU_REQ_GETSTATUS)
       => /\ xfer' = "accepted"
          /\ Len(response') = 6
          /\ response'[1] = 0
          /\ response'[2] = 0 /\ response'[3] = 0 /\ response'[4] = 0
          /\ response'[5] = (IF state = "AppIdle" THEN 0 ELSE 1)
          /\ response'[6] = 0
          /\ state' = state
          /\ timeout' = timeout]_vars

C11_Witness ==
    /\ op = "control_in" /\ req.request = DFU_REQ_GETSTATUS
    /\ xfer = "accepted"
    /\ state = "AppDetach" /\ IsSome(timeout)
    /\ Len(response) = 6 /\ response[5] = 1

\* bit i of the byte b
Bit(b, i) == (b \div (2 ^ i)) % 2

\* The bmAttributes byte of a completely written descriptor.
AttributeByte == descriptor.written[3][3][1]

\* C12: the attribute byte of the DFU functional descriptor has bit3 =
\* WILL_DETACH, bit2 = MANIFESTATION_TOLERANT, bit1 = CAN_DNLOAD, bit0 =
\* CAN_UPLOAD, and no higher bit set, for every choice of the four flags.
C12_AttributeBits ==
    descriptor.result = "Ok" =>
      /\ Bit(AttributeByte, 3) = (IF WILL_DETACH THEN 1 ELSE 0)
      /\ Bit(AttributeByte, 2) = (IF MANIFESTATION_TOLERANT THEN 1 ELSE 0)
      /\ Bit(AttributeByte, 1) = (IF CAN_DNLOAD THEN 1 ELSE 0)
      /\ Bit(AttributeByte, 0) = (IF CAN_UPLOAD THEN 1 ELSE 0)
      /\ AttributeByte < 16

\* C13: with WILL_DETACH false, once ticks alone have used up the accepted
\* timeout it is None, and a bus reset arriving while no timeout is pending
\* calls nothing and changes neither the state nor the timeout; a reset
\* calls detach() only from a state with a timeout pending.
C13_LateResetIgnored ==
    [][/\ (~WILL_DETACH /\ win.open /\ win.ticked /\ win.sum = win.T)
            => timeout = None
       /\ (~WILL_DETACH /\ op' = "reset" /\ timeout = None)
            => (calls' = << >> /\ state' = state /\ timeout' = timeout)
       /\ (~WILL_DETACH /\ op' = "reset" /\ calls' # << >>)
            => IsSome(timeout)]_vars

C13_Witness ==
    /\ ~WILL_DETACH /\ ~allowOverridden
    /\ op = "reset" /\ calls = << >>
    /\ state = "AppDetach" /\ timeout = None
    /\ ~detachInvoked

\* C14: with the default allow, a pending timeout never exceeds the
\* advertised DETACH_TIMEOUT_MS.
C14_PendingWithinAdvertised ==
    (~allowOverridden /\ IsSome(timeout)) => timeout[1] <= DETACH_TIMEOUT_MS

\* C15: a request for this interface whose code is not DETACH (control
\* write) or not GETSTATUS (control read) is rejected, calls neither allow
\* nor detach, and leaves state and timeout unchanged.
C15_OtherCodesRejected ==
    [][(/\ ForThisInterface(req')
        /\ \/ op' = "control_out" /\ req'.request # DFU_REQ_DETACH
           \/ op' = "control_in" /\ req'.request # DFU_REQ_GETSTATUS)
       => /\ xfer' = "rejected"
          /\ calls' = << >>
          /\ response' = << >>
          /\ state' = state
          /\ timeout' = timeout]_vars

C15_Witness ==
    /\ op = "control_in" /\ ForThisInterface(req)
    /\ req.request = DFU_REQ_DETACH
    /\ xfer = "rejected"
    /\ IsSome(timeout)

\* C16: detach() is called by no control transfer handler; with WILL_DETACH
\* true only by a tick that leaves the timeout None, never by reset; with
\* WILL_DETACH false only by reset, never by tick.
C16_WhoDetaches ==
    CountDetach(calls) > 0 =>
      \/ WILL_DETACH /\ op = "tick" /\ timeout = None
      \/ ~WILL_DETACH /\ op = "reset"

C16_Witness ==
    /\ op = "reset" /\ calls = << DetachCall >>
    /\ win.detaches = 1 /\ ~allowOverridden

\* C17: a step that calls detach() starts with a timeout pending and ends
\* with none; detach() is called at most once since the last accepted DETACH
\* and never before a DETACH was accepted.
C17_OneDetachPerAccept ==
    [][/\ CountDetach(calls') > 0 =>
            (IsSome(timeout) /\ timeout' = None /\ CountDetach(calls') = 1)
       /\ win'.detaches <= 1
       /\ detachInvoked' => state' = "AppDetach"]_vars

C17_Witness ==
    /\ WILL_DETACH /\ op = "tick" /\ elapsed = 0
    /\ calls = << DetachCall >>
    /\ win.detaches = 1 /\ timeout = None

\* C19: a tick on Some(p) with elapsed e leaves None when e >= p (also for
\* p = 0, e = 0) and Some(p - e), at least 1, otherwise; a tick with no
\* timeout pending changes nothing and calls nothing; the timeout after a
\* tick is never Some(0) and always a u16.
C19_TickArithmetic ==
    [][op' = "tick" =>
         /\ IF IsSome(timeout)
            THEN IF elapsed' >= timeout[1]
                 THEN timeout' = None
                 ELSE /\ timeout' = Some(timeout[1] - elapsed')
                      /\ timeout'[1] >= 1
            ELSE timeout' = None /\ state' = state /\ calls' = << >>
         /\ timeout' # Some(0)
         /\ timeout' \in OptionU16]_vars

C19_Witness ==
    /\ WILL_DETACH /\ op = "tick" /\ elapsed = MaxMs
    /\ calls = << DetachCall >>
    /\ ~win.open /\ timeout = None

\* C20: a pending timeout implies the AppDetach state; right after
\* construction the state is AppIdle and no timeout is pending.
C20_PendingImpliesDetach ==
    /\ IsSome(timeout) => state = "AppDetach"
    /\ op = "new" => (state = "AppIdle" /\ timeout = None)

C20_Witness ==
    /\ DetachHandled /\ xfer = "accepted"
    /\ timeout = Some(0) /\ state = "AppDetach"
    /\ ~detachInvoked

\* C18: with WILL_DETACH true, when no further DETACH is handled during a
\* countdown and ticks with elapsed >= 1 keep coming, a pending timeout leads
\* to a call of detach(); every tick with elapsed >= 1 lowers a pending
\* timeout by at least 1 or clears it (so at most T such calls are needed),
\* and a tick with elapsed = 0 on a nonzero timeout changes nothing.
C18_EventuallyDetached ==
    /\ (WILL_DETACH /\ IsSome(timeout)) ~> (CountDetach(calls) > 0)
    /\ [][(op' = "tick" /\ IsSome(timeout)) =>
            IF elapsed' >= 1
            THEN timeout' = None \/ timeout'[1] <= timeout[1] - 1
            ELSE timeout[1] > 0 => (timeout' = timeout /\ calls' = << >>)]_vars

C18_Witness ==
    /\ WILL_DETACH /\ op = "tick"
    /\ win.open /\ win.T = MaxMs /\ win.sum = win.T
    /\ elapsed = win.T
    /\ detachInvoked
====
